---- MODULE Spec2Model ----
(***************************************************************************)
(* Model of wezterm-gui/src/termwindow/EricWindow.rs: the fuzzy-search     *)
(* modal (EricWindow) and its background searcher (FuzzySearcher).          *)
(*                                                                         *)
(* The GUI thread runs key_down and computed_element; every call of        *)
(* computed_element calls start_fuzzy_search, which (for a non-empty       *)
(* query) calls FuzzySearcher::search, which spawns one worker thread.     *)
(* A worker reads the pane, scores, sorts, caps, extracts positions, takes *)
(* the write lock of `results`, replaces the list and notifies the window. *)
(***************************************************************************)
EXTENDS Integers, Sequences, FiniteSets

(***************************************************************************)
(* Bounds of the model.                                                    *)
(***************************************************************************)
\* longest query typed
MaxQueryLen == 2
\* calls of FuzzySearcher::search (worker threads spawned) in one run
MaxSearches == 2
\* lines the pane receives while the modal is open
MaxOutput == 1
\* lines of the large corpus beyond the cap
CapExtra == 2

(***************************************************************************)
(* Program constants.                                                      *)
(***************************************************************************)
\* temp.iter_mut().take(100)
ResultCap == 100

(***************************************************************************)
(* Characters, texts and corpora.                                          *)
(***************************************************************************)
Alphabet == {"a", "b"}

Tab == <<"a", "b">>
Tba == <<"b", "a">>
Txx == <<"x", "x">>
Txab == <<"x", "a", "b">>

\* lines a program in the pane may print while the modal is open
OutputTexts == {Tab}

\* the pane at the time the modal opens: (first_row, lines)
SmallPanes ==
    { [first_row |-> 0, lines |-> << >>],
      [first_row |-> 0, lines |-> <<Tba, Tab, Txx, Tba, Tab>>],
      [first_row |-> 2, lines |-> <<Txab, Tab>>] }

BigLine(i) == IF i % 3 = 0 THEN Tab ELSE IF i % 3 = 1 THEN Tba ELSE Txab

LargePanes ==
    { [first_row |-> 0, lines |-> [i \in 1..(ResultCap + CapExtra) |-> BigLine(i)]],
      [first_row |-> 1, lines |-> [i \in 1..(ResultCap - 1) |-> BigLine(i)]] }

\* texts for which the Matcher cannot produce positions
NullFamilies == { {}, {Tba} }

(***************************************************************************)
(* The Matcher (fzf_get_score, fzf_get_positions): an external capability. *)
(* A deterministic subsequence matcher: the score is positive exactly when *)
(* the pattern occurs as a subsequence of the text.                        *)
(***************************************************************************)
RECURSIVE MatchFrom(_, _, _)
\* the 1-based indexes of the leftmost match of pat in text from index i on,
\* or <<0>> at the point where the match fails
MatchFrom(pat, text, i) ==
    IF pat = << >> THEN << >>
    ELSE LET hits == { j \in i..Len(text) : text[j] = Head(pat) }
         IN  IF hits = {} THEN <<0>>
             ELSE LET j == CHOOSE k \in hits : \A m \in hits : k <= m
                  IN  <<j>> \o MatchFrom(Tail(pat), text, j + 1)

Matches(pat, text) ==
    LET m == MatchFrom(pat, text, 1)
    IN  \A k \in 1..Len(m) : m[k] # 0

fzf_get_score(text, pat) ==
    IF pat = << >> \/ ~Matches(pat, text) THEN 0
    ELSE LET m == MatchFrom(pat, text, 1)
             adjacent == Cardinality({ k \in 1..(Len(m) - 1) : m[k + 1] = m[k] + 1 })
         IN  16 * Len(pat) + 8 * adjacent + (IF m[1] = 1 THEN 4 ELSE 0)

\* a null pointer when the Matcher cannot produce positions for the text, else
\* the matched offsets (0-based; none for a text that does not match)
fzf_get_positions(text, pat, nullTexts) ==
    IF text \in nullTexts THEN [null |-> TRUE, data |-> << >>]
    ELSE IF ~Matches(pat, text) THEN [null |-> FALSE, data |-> << >>]
    ELSE LET m == MatchFrom(pat, text, 1)
         IN  [null |-> FALSE, data |-> [k \in 1..Len(m) |-> m[k] - 1]]

(***************************************************************************)
(* State.                                                                  *)
(***************************************************************************)
VARIABLES
    open,            \* the modal is the window's active modal
    crashed,         \* the process panicked
    selection,       \* EricWindow.selection: the query text
    selected_row,    \* EricWindow.selected_row
    top_row,         \* EricWindow.top_row
    commands,        \* EricWindow.commands
    results_dirty,   \* EricWindow.results_dirty
    results,         \* FuzzySearcher.results (behind the RwLock)
    lock,            \* the worker holding the write lock of results, or 0
    threads,         \* the workers spawned by search, in spawn order
    pane,            \* the host pane: first_row and lines
    nulls,           \* texts for which fzf_get_positions returns null
    invalidated,     \* an invalidate_modal notification is pending
    owner,           \* the worker whose list is published (its locals at the
                     \* time it published), id 0 before the first publication
    noutput,         \* lines the pane has received since the modal opened
    last_empty,      \* the last call of start_fuzzy_search found an empty query
    select_cell,     \* the (x, y) handed to CopyOverlay::select_cell, << >> before
    published,       \* how many times a worker has replaced the result list
    notified,        \* how many times a worker has called window.notify
    edited           \* a key has edited the query since the last render pass

vars == <<open, crashed, selection, selected_row, top_row, commands,
          results_dirty, results, lock, threads, pane, nulls, invalidated,
          owner, noutput, last_empty, select_cell, published, notified, edited>>

uiVars == <<selection, selected_row, top_row, commands, results_dirty, select_cell>>

(***************************************************************************)
(* EricWindow::new / FuzzySearcher::new                                    *)
(***************************************************************************)
NoOwner == [id |-> 0, query |-> << >>, scanned |-> << >>, first_row |-> 0, ms |-> << >>]

InitWith(panes, families) ==
    /\ open = TRUE
    /\ crashed = FALSE
    /\ selection = << >>
    /\ selected_row = 0
    /\ top_row = 0
    /\ commands = << >>
    /\ results_dirty = FALSE
    /\ results = << >>
    /\ lock = 0
    /\ threads = << >>
    /\ pane \in panes
    /\ nulls \in families
    /\ invalidated = FALSE
    /\ owner = NoOwner
    /\ noutput = 0
    /\ last_empty = FALSE
    /\ select_cell = << >>
    /\ published = 0
    /\ notified = 0
    /\ edited = FALSE

Init == InitWith(SmallPanes, NullFamilies)

InitLarge == InitWith(LargePanes, {{}})

(***************************************************************************)
(* The body of the worker closure of FuzzySearcher::search.                *)
(***************************************************************************)
\* a filter that lets a zero score through
KeepsNonNegative(score) == score >= 0

\* `if score > 0`
Keeps(score) == score > 0

\* a scoring loop that counts the lines from 1 when it computes the row index
ScanLinesOneBased(first_row, lines, pat) ==
    LET scored == [i \in 1..Len(lines) |->
                     [score |-> fzf_get_score(lines[i], pat),
                      row   |-> first_row + i,
                      line  |-> lines[i]]]
    IN  SelectSeq(scored, LAMBDA e : Keeps(e.score))

\* the scoring loop: temp, in scan order
ScanLines(first_row, lines, pat) ==
    LET scored == [i \in 1..Len(lines) |->
                     [score |-> fzf_get_score(lines[i], pat),
                      row   |-> first_row + (i - 1),
                      line  |-> lines[i]]]
    IN  SelectSeq(scored, LAMBDA e : Keeps(e.score))

\* the comparator without its `.reverse()`
ScoreLessAscending(u, v) == u < v

\* the comparator `a.0.cmp(&b.0).reverse()` says Less: score u sorts before score v
ScoreLess(u, v) == u > v

\* sort_by is a stable sort on the score alone: the entries of one score stay in
\* scan order, and the scores follow each other as the comparator orders them
RECURSIVE SortBuckets(_, _)
SortBuckets(temp, scores) ==
    IF scores = {} THEN << >>
    ELSE LET first == CHOOSE u \in scores : \A v \in scores : v = u \/ ScoreLess(u, v)
         IN  SelectSeq(temp, LAMBDA e : e.score = first)
                 \o SortBuckets(temp, scores \ {first})

SortByScore(temp) == SortBuckets(temp, { temp[i].score : i \in 1..Len(temp) })

\* the loop without its `.take(100)`
Uncapped(temp) == temp

\* `.take(100)`
Capped(temp) == SubSeq(temp, 1, IF Len(temp) < ResultCap THEN Len(temp) ELSE ResultCap)

\* `if(!pos.is_null())`: the entry is pushed
Pushes(pos) == ~pos.null

\* a highlight loop that stores the positions counted from 1
HighlightOneBased(temp, pat, nullTexts) ==
    LET kept == SelectSeq(temp, LAMBDA c : Pushes(fzf_get_positions(c.line, pat, nullTexts)))
    IN  [i \in 1..Len(kept) |->
           [brief     |-> kept[i].line,
            rowIndex  |-> kept[i].row,
            first_y   |-> 0,
            positions |-> LET data == fzf_get_positions(kept[i].line, pat, nullTexts).data
                          IN  [j \in 1..Len(data) |-> data[j] + 1]]]

\* the highlight loop: ms
Highlight(temp, pat, nullTexts) ==
    LET kept == SelectSeq(temp, LAMBDA c : Pushes(fzf_get_positions(c.line, pat, nullTexts)))
    IN  [i \in 1..Len(kept) |->
           [brief     |-> kept[i].line,
            rowIndex  |-> kept[i].row,
            first_y   |-> 0,
            positions |-> fzf_get_positions(kept[i].line, pat, nullTexts).data]]

\* everything between get_lines and the write lock
BuildResults(pat, p, nullTexts) ==
    Highlight(Capped(SortByScore(ScanLines(p.first_row, p.lines, pat))), pat, nullTexts)

\* `results.extend(ms)` in place of the assignment
Extended(old, ms) == old \o ms

\* `*results = ms`
Replaced(old, ms) == ms

(***************************************************************************)
(* Worker threads.                                                         *)
(***************************************************************************)
\* FuzzySearcher::search, on the GUI thread: clone the query, spawn the worker
Spawned(pat) ==
    Append(threads, [query |-> pat, pc |-> "scan", scanned |-> << >>,
                     first_row |-> 0, ms |-> << >>])

\* a worker that has returned
Finished == [query |-> << >>, pc |-> "done", scanned |-> << >>, first_row |-> 0, ms |-> << >>]

\* get_dimensions, get_lines, and the thread-local work up to the write lock
WorkerScan(t) ==
    /\ ~crashed
    /\ threads[t].pc = "scan"
    /\ threads' = [threads EXCEPT ![t] =
          IF threads[t].query = << >>
          THEN Finished
          ELSE [@ EXCEPT !.pc = "publish", !.scanned = pane.lines,
                         !.first_row = pane.first_row,
                         !.ms = BuildResults(threads[t].query, pane, nulls)]]
    /\ UNCHANGED <<open, crashed, uiVars, results, lock, pane, nulls,
                   invalidated, owner, noutput, last_empty, published, notified,
                   edited>>

\* A worker that replaces the result list and returns without calling window.notify.
WorkerPublishNoNotify(t) ==
    /\ ~crashed
    /\ t \in 1..Len(threads)
    /\ threads[t].pc = "publish"
    /\ lock = 0
    /\ results' = Replaced(results, threads[t].ms)
    /\ owner' = [id |-> t, query |-> threads[t].query, scanned |-> threads[t].scanned,
                 first_row |-> threads[t].first_row, ms |-> threads[t].ms]
    /\ published' = published + 1
    /\ threads' = [threads EXCEPT ![t] = Finished]
    /\ UNCHANGED <<open, crashed, uiVars, lock, pane, nulls, invalidated, noutput, last_empty,
                   notified,
                   edited>>

\* `results.write().unwrap()` and `*results = ms`
WorkerPublish(t) ==
    /\ ~crashed
    /\ threads[t].pc = "publish"
    /\ lock = 0
    /\ lock' = t
    /\ results' = Replaced(results, threads[t].ms)
    /\ owner' = [id |-> t, query |-> threads[t].query, scanned |-> threads[t].scanned,
                  first_row |-> threads[t].first_row, ms |-> threads[t].ms]
    /\ published' = published + 1
    /\ threads' = [threads EXCEPT ![t].pc = "notify"]
    /\ UNCHANGED <<open, crashed, uiVars, pane, nulls, invalidated, noutput, last_empty,
                   notified,
                   edited>>

\* window.notify(... invalidate_modal ...), then the write guard goes out of scope
WorkerNotify(t) ==
    /\ ~crashed
    /\ threads[t].pc = "notify"
    /\ invalidated' = TRUE
    /\ lock' = 0
    /\ notified' = notified + 1
    /\ threads' = [threads EXCEPT ![t] = Finished]
    /\ UNCHANGED <<open, crashed, uiVars, results, pane, nulls, owner, noutput, last_empty,
                   published,
                   edited>>

(***************************************************************************)
(* The GUI thread: Modal::key_down.                                        *)
(***************************************************************************)
UiIdle == open /\ ~crashed

\* KeyCode::Char(c)
KeyChar(c) ==
    /\ UiIdle
    /\ Len(selection) < MaxQueryLen
    /\ selection' = Append(selection, c)
    /\ results_dirty' = TRUE
    /\ selected_row' = 0
    /\ top_row' = 0
    /\ edited' = TRUE
    /\ UNCHANGED <<open, crashed, commands, select_cell, results, lock, threads, pane, nulls,
                   invalidated, owner, noutput, last_empty, published, notified>>

\* KeyCode::Backspace
KeyBackspace ==
    /\ UiIdle
    /\ selection' = IF selection = << >> THEN << >>
                    ELSE SubSeq(selection, 1, Len(selection) - 1)
    /\ selected_row' = 0
    /\ top_row' = 0
    /\ edited' = TRUE
    /\ UNCHANGED <<open, crashed, commands, select_cell, results_dirty, results, lock, threads,
                   pane, nulls, invalidated, owner, noutput, last_empty, published, notified>>

\* KeyCode::UpArrow: move_up
KeyUp ==
    /\ UiIdle
    /\ LET row == IF selected_row = 0 THEN 0 ELSE selected_row - 1
       IN  /\ selected_row' = row
           /\ IF row < Len(commands)
              THEN top_row' = commands[row + 1].rowIndex /\ crashed' = FALSE
              ELSE top_row' = top_row /\ crashed' = TRUE
    /\ UNCHANGED <<open, selection, commands, select_cell, results_dirty, results, lock, threads,
                   pane, nulls, invalidated, owner, noutput, last_empty, published, notified,
                   edited>>

\* A move_down that tests the length of the result list instead of `commands`.
KeyDownOnResults ==
    /\ UiIdle
    /\ IF selected_row + 1 < Len(results)
       THEN /\ selected_row' = selected_row + 1
            /\ top_row' = results[selected_row + 2].rowIndex
       ELSE UNCHANGED <<selected_row, top_row>>
    /\ UNCHANGED <<open, crashed, selection, commands, select_cell, results_dirty, results, lock,
                   threads, pane, nulls, invalidated, owner, noutput, last_empty, published,
                   notified,
                   edited>>

\* KeyCode::DownArrow: move_down
KeyDown ==
    /\ UiIdle
    /\ IF selected_row + 1 < Len(commands)
       THEN /\ selected_row' = selected_row + 1
            /\ top_row' = commands[selected_row + 2].rowIndex
       ELSE UNCHANGED <<selected_row, top_row>>
    /\ UNCHANGED <<open, crashed, selection, commands, select_cell, results_dirty, results, lock,
                   threads, pane, nulls, invalidated, owner, noutput, last_empty, published, notified,
                   edited>>

\* KeyCode::Enter
KeyEnter ==
    /\ UiIdle
    /\ LET row == IF selected_row = 0 THEN 0 ELSE selected_row - 1
       IN  /\ selected_row' = row
           /\ IF row < Len(commands)
              THEN /\ open' = FALSE
                   /\ crashed' = FALSE
                   /\ select_cell' = <<commands[row + 1].first_y,
                                       commands[row + 1].rowIndex + 1>>
              ELSE /\ open' = open
                   /\ crashed' = TRUE
                   /\ select_cell' = select_cell
    /\ UNCHANGED <<selection, top_row, commands, results_dirty, results, lock, threads,
                   pane, nulls, invalidated, owner, noutput, last_empty, published, notified,
                   edited>>

\* KeyCode::Escape: cancel_modal
KeyEscape ==
    /\ UiIdle
    /\ open' = FALSE
    /\ UNCHANGED <<crashed, uiVars, results, lock, threads, pane, nulls,
                   invalidated, owner, noutput, last_empty, published, notified,
                   edited>>

(***************************************************************************)
(* The GUI thread: Modal::computed_element.                                *)
(***************************************************************************)
\* start_fuzzy_search: search only a non-empty query
start_fuzzy_search(sel) == IF sel # << >> THEN Spawned(sel) ELSE threads

\* one render pass: start_fuzzy_search, then `results.read().unwrap()` (which
\* waits while a worker holds the write lock) and the indexing by selected_row
computed_element ==
    /\ UiIdle
    /\ lock = 0
    /\ selection # << >> => Len(threads) < MaxSearches
    /\ threads' = start_fuzzy_search(selection)
    /\ last_empty' = (selection = << >>)
    /\ invalidated' = FALSE
    /\ edited' = FALSE
    /\ top_row' = IF Len(results) > 0 /\ selected_row < Len(results)
                  THEN results[selected_row + 1].rowIndex ELSE top_row
    /\ crashed' = (Len(results) > 0 /\ selected_row >= Len(results))
    /\ UNCHANGED <<open, selection, selected_row, commands, results_dirty, results,
                   lock, pane, nulls, owner, noutput, select_cell, published, notified>>

(***************************************************************************)
(* The host pane.                                                          *)
(***************************************************************************)
\* the program in the pane prints a line
PaneOutput(text) ==
    /\ ~crashed
    /\ noutput < MaxOutput
    /\ noutput' = noutput + 1
    /\ pane' = [pane EXCEPT !.lines = Append(@, text)]
    /\ UNCHANGED <<open, crashed, uiVars, results, lock, threads, nulls,
                   invalidated, owner, last_empty, published, notified,
                   edited>>

Next ==
    \/ \E c \in Alphabet : KeyChar(c)
    \/ KeyBackspace
    \/ KeyUp
    \/ KeyDown
    \/ KeyEnter
    \/ KeyEscape
    \/ computed_element
    \/ \E t \in 1..Len(threads) : WorkerScan(t)
    \/ \E t \in 1..Len(threads) : WorkerPublish(t)
    \/ \E t \in 1..Len(threads) : WorkerNotify(t)
    \/ \E text \in OutputTexts : PaneOutput(text)

Spec == Init /\ [][Next]_vars

\* the search over a corpus larger than the cap: typing, rendering, the workers
NextLarge ==
    \/ \E c \in Alphabet : KeyChar(c)
    \/ KeyBackspace
    \/ computed_element
    \/ \E t \in 1..Len(threads) : WorkerScan(t)
    \/ \E t \in 1..Len(threads) : WorkerPublish(t)
    \/ \E t \in 1..Len(threads) : WorkerNotify(t)
    \/ \E text \in OutputTexts : PaneOutput(text)

SpecLarge == InitLarge /\ [][NextLarge]_vars

(***************************************************************************)
(* Helpers of the properties.                                              *)
(***************************************************************************)
\* the number of calls of FuzzySearcher::search so far: the latest generation
Generation == Len(threads)

AllWorkersDone == \A t \in 1..Len(threads) : threads[t].pc = "done"

\* the score of the published entry k for the query of the task that published it
EntryScore(k) == fzf_get_score(results[k].brief, owner.query)

\* the positions in the published task's scan of the lines that score positively
OwnerMatches ==
    { i \in 1..Len(owner.scanned) : fzf_get_score(owner.scanned[i], owner.query) > 0 }

\* the published entries that refer to line i of the published task's scan
EntriesOf(i) ==
    { k \in 1..Len(results) : results[k].rowIndex = owner.first_row + (i - 1) }

(***************************************************************************)
(* C1: only the task of the most recently submitted query publishes: a     *)
(* publication is always made by the task of the latest call of search.    *)
(***************************************************************************)
C1_OnlyLatestPublishes ==
    [][owner'.id # owner.id => owner'.id = Generation]_vars

(***************************************************************************)
(* C2: once the task of the latest submitted query has published, and no   *)
(* further query is submitted, the published list stays that task's list.  *)
(***************************************************************************)
C2_LatestResultStays ==
    [][(owner.id # 0 /\ owner.id = Generation /\ Generation' = Generation)
          => owner'.id = owner.id]_vars

(***************************************************************************)
(* C3: a render pass that submits an empty query leaves the result list    *)
(* empty when it returns, and starts no worker.                            *)
(***************************************************************************)
C3_EmptySubmitClears ==
    [][(computed_element /\ selection = << >>)
          => (results' = << >> /\ threads' = threads)]_vars

(***************************************************************************)
(* C4: after a non-empty submission followed by an empty one, the final    *)
(* result list (every worker has returned) is empty.                       *)
(***************************************************************************)
C4_FinalEmptyAfterEmptySubmit ==
    (Generation > 0 /\ last_empty /\ AllWorkersDone) => results = << >>

(***************************************************************************)
(* C5: the published list is always the complete list of exactly one task  *)
(* (the list that task built before it took the lock), or the initial      *)
(* empty list: never a partial list, never entries of two tasks.           *)
(***************************************************************************)
C5_AtomicReplace ==
    /\ results = owner.ms
    /\ owner.id = 0 => results = << >>
    /\ owner.id # 0 =>
          owner.ms = BuildResults(owner.query,
                                  [first_row |-> owner.first_row, lines |-> owner.scanned],
                                  nulls)

\* a second task has built a different list while the first one's is published
C5_Witness ==
    /\ owner.id # 0
    /\ results # << >>
    /\ \E t \in 1..Len(threads) :
          /\ t # owner.id
          /\ threads[t].pc = "publish"
          /\ threads[t].ms # << >>
          /\ threads[t].ms # results

(***************************************************************************)
(* C6: the published list never has more than 100 entries.                 *)
(***************************************************************************)
C6_AtMostCap == Len(results) <= ResultCap

\* more than 100 lines matched and the list is full
C6_Witness ==
    /\ Cardinality(OwnerMatches) > ResultCap
    /\ Len(results) = ResultCap

(***************************************************************************)
(* C7: the published list is ordered by score descending, and entries of   *)
(* equal score are in ascending line index.                                *)
(***************************************************************************)
C7_SortedByScore ==
    \A k \in 1..(Len(results) - 1) :
        \/ EntryScore(k) > EntryScore(k + 1)
        \/ /\ EntryScore(k) = EntryScore(k + 1)
           /\ results[k].rowIndex < results[k + 1].rowIndex

\* a list with a tie and with a strict descent, whose scan order was different
C7_Witness ==
    /\ Len(results) >= 3
    /\ \E k \in 1..(Len(results) - 1) : EntryScore(k) = EntryScore(k + 1)
    /\ \E k \in 1..(Len(results) - 1) :
          /\ EntryScore(k) > EntryScore(k + 1)
          /\ results[k].rowIndex > results[k + 1].rowIndex

(***************************************************************************)
(* C8: when n lines score positively, the published list has exactly       *)
(* min(n, 100) entries, and a matching line is left out only when the list *)
(* is full of lines that score at least as high.                           *)
(***************************************************************************)
C8_ExactlyTopMatches ==
    owner.id # 0 =>
       /\ Len(results) = (IF Cardinality(OwnerMatches) < ResultCap
                          THEN Cardinality(OwnerMatches) ELSE ResultCap)
       /\ \A i \in OwnerMatches :
             \/ EntriesOf(i) # {}
             \/ /\ Len(results) = ResultCap
                /\ \A k \in 1..Len(results) :
                      EntryScore(k) >= fzf_get_score(owner.scanned[i], owner.query)

(***************************************************************************)
(* C9: every published entry refers to a line of the scanned corpus whose  *)
(* score for the task's query is positive.                                 *)
(***************************************************************************)
C9_OnlyPositiveScores ==
    \A k \in 1..Len(results) :
        /\ EntryScore(k) > 0
        /\ \E i \in OwnerMatches :
              k \in EntriesOf(i) /\ owner.scanned[i] = results[k].brief

\* a list was published from a corpus that holds a line that does not match
C9_Witness ==
    /\ results # << >>
    /\ \E i \in 1..Len(owner.scanned) : fzf_get_score(owner.scanned[i], owner.query) <= 0

(***************************************************************************)
(* C10: a line that scored positively and survived the cap, and for which  *)
(* the Matcher returns no positions, is in the published list with an      *)
(* empty highlight set.                                                    *)
(***************************************************************************)
C10_NullPositionsKept ==
    (owner.id # 0 /\ Cardinality(OwnerMatches) <= ResultCap) =>
       \A i \in OwnerMatches :
           fzf_get_positions(owner.scanned[i], owner.query, nulls).null
              => \E k \in EntriesOf(i) : results[k].positions = << >>

\* ---------------------------------------------------------------------------
\* Corpus, cancellation and teardown
\* ---------------------------------------------------------------------------

\* The lines the pane held when the modal was constructed: PaneOutput only
\* appends, and noutput counts what it appended.
ConstructionCorpus == SubSeq(pane.lines, 1, Len(pane.lines) - noutput)

\* The workers that have not yet replaced the result list.
CanStillWrite == { t \in 1..Len(threads) : threads[t].pc \in {"scan", "publish"} }

\* C11: the corpus is captured once, at construction: every worker scans the
\* lines the pane held at that moment, whatever the pane printed afterwards.
C11_CorpusCapturedOnce ==
    /\ \A t \in 1..Len(threads) :
          threads[t].pc \in {"publish", "notify"} => threads[t].scanned = ConstructionCorpus
    /\ owner.id # 0 => owner.scanned = ConstructionCorpus

\* C12: when the same non-empty query is searched twice in a row, the second
\* publication leaves the published list as the first one made it, even if
\* the pane printed new output in between.
C12_SameQuerySameList ==
    [][(owner.id # 0 /\ owner'.id = owner.id + 1 /\ owner'.query = owner.query)
          => results' = results]_vars

\* C13: at most one worker that can still write the result list is running.
C13_AtMostOneWriter == Cardinality(CanStillWrite) <= 1

\* C14: once the modal is cancelled, no worker replaces the result list or
\* sends an invalidation notification any more.
C14_QuietAfterTeardown ==
    [][~open => (published' = published /\ notified' = notified /\ results' = results)]_vars

\* C15: no sequence of key events and publications makes a handler index out
\* of bounds: the process never panics.
C15_NeverCrashes == ~crashed

\* ---------------------------------------------------------------------------
\* Selection, activation and notification
\* ---------------------------------------------------------------------------

\* C16: whenever the published result list is non-empty, the selected index is
\* one of its indexes, also after a publication that made the list shorter.
C16_SelectedInRange == Len(results) > 0 => selected_row < Len(results)

\* A non-empty list is published and a worker is about to replace it by a
\* shorter non-empty one.
C16_Witness ==
    /\ open /\ ~crashed
    /\ owner.id # 0
    /\ \E t \in 1..Len(threads) :
          /\ threads[t].pc = "publish"
          /\ Len(threads[t].ms) > 0
          /\ Len(threads[t].ms) < Len(results)

\* C17: Enter hands to select_cell the anchor offset and the line index of the
\* entry at the selected index of the published result list.
C17_EnterHandsSelectedEntry ==
    [][(KeyEnter /\ selected_row < Len(results))
          => select_cell' = <<results[selected_row + 1].first_y,
                              results[selected_row + 1].rowIndex>>]_vars

\* C18: at every publication the selected index is 0.
C18_PublicationFindsZero == [][published' # published => selected_row' = 0]_vars

\* The list of a second search is visible, with entries to move over.
C18_Witness ==
    /\ open /\ ~crashed
    /\ published = 2
    /\ owner.id = 2
    /\ Len(results) > 1
    /\ selected_row = 0

\* C19: a worker that scanned an empty pane finds nothing and publishes the
\* empty list, for every non-empty query.
C19_EmptyCorpusEmptyList ==
    /\ \A t \in 1..Len(threads) :
          (threads[t].pc \in {"publish", "notify"} /\ threads[t].scanned = << >>)
             => threads[t].ms = << >>
    /\ (owner.id # 0 /\ owner.scanned = << >>) => results = << >>

\* A worker searched a non-empty query in an empty pane, published and returned.
C19_Witness ==
    /\ ~crashed
    /\ owner.id # 0
    /\ owner.query # << >>
    /\ owner.scanned = << >>
    /\ threads[owner.id].pc = "done"

\* C20: every publication is followed by one notification of the same worker,
\* and there is no notification without a publication: the two counts differ
\* only while a worker is between its publication and its notification.
C20_OneNotificationPerPublication ==
    /\ notified <= published
    /\ lock = 0 => notified = published
    /\ lock # 0 => published = notified + 1

\* Two workers have published and notified, and all have returned.
C20_Witness ==
    /\ published = 2
    /\ notified = 2
    /\ AllWorkersDone

\* ---------------------------------------------------------------------------
\* Entries of the published list
\* ---------------------------------------------------------------------------

\* C21: every highlight position of a published entry is an offset into the
\* entry's text: at least 0 and below the length of the text.
C21_PositionsInText ==
    \A k \in 1..Len(results) :
        \A j \in 1..Len(results[k].positions) :
            /\ results[k].positions[j] >= 0
            /\ results[k].positions[j] < Len(results[k].brief)

\* A published entry whose match reaches the last character of its text.
C21_Witness ==
    \E k \in 1..Len(results) :
        /\ Len(results[k].positions) = 2
        /\ results[k].positions[2] = Len(results[k].brief) - 1

\* C22: a worker calls window.notify only after it has released the write lock
\* it took for its publication.
C22_NotifyOutsideLock == [][notified' # notified => lock = 0]_vars

\* The anchor offset the entry of a line has to carry: the last position the
\* Matcher returned for it, or 0 when it returned none.
LastPosition(positions) ==
    IF positions = << >> THEN 0 ELSE positions[Len(positions)]

\* C23: the anchor offset (first_y) of every published entry is the last
\* highlight position of the entry, or 0 when the entry has no position.
C23_AnchorIsLastPosition ==
    \A k \in 1..Len(results) : results[k].first_y = LastPosition(results[k].positions)

\* ---------------------------------------------------------------------------
\* The render cycle and the moves
\* ---------------------------------------------------------------------------

\* C24: a search is started only for a submitted query: a render pass starts
\* a worker only when a key has edited the query since the render pass before,
\* so the cycle render pass -> search -> publication -> notification ->
\* render pass ends once the user stops typing.
C24_SearchOnlyOnSubmission == [][Len(threads') > Len(threads) => edited]_vars

\* C25 (move_down): with the modal waiting for a key, the Down arrow moves the
\* selected index forward by one when the selected entry is not the last entry
\* of the published list, and leaves it where it is otherwise.
C25_MoveDownStepsByOne ==
    UiIdle =>
       ENABLED (KeyDown /\ selected_row' = IF selected_row + 1 < Len(results)
                                           THEN selected_row + 1
                                           ELSE selected_row)

\* C26: every published entry agrees with the scan of the worker that
\* published it: its row index is first_row plus the position of a scanned
\* line, its text is the text of that line, and no row index occurs twice in
\* the list.
C26_EntriesMatchScan ==
    owner.id # 0 =>
       /\ \A k \in 1..Len(results) :
             \E i \in 1..Len(owner.scanned) :
                 /\ results[k].rowIndex = owner.first_row + (i - 1)
                 /\ results[k].brief = owner.scanned[i]
       /\ \A k1, k2 \in 1..Len(results) :
             results[k1].rowIndex = results[k2].rowIndex => k1 = k2

\* A list over a scan that does not start at row 0, in another order than the
\* scan order.
C26_Witness ==
    /\ owner.id # 0
    /\ owner.first_row > 0
    /\ Len(results) = 2
    /\ results[1].rowIndex > results[2].rowIndex

====
